---- MODULE Spec2Model ----
(***************************************************************************)
(* Model of the multi-time-slot batch pattern of the Sentinel Hub          *)
(* notebooks: sentinelhub/ice_monitoring.ipynb and the Process API         *)
(* notebook (Example 8).  A run executes the cells in order:               *)
(*   partition cell  -> request-list cell (build, download_list[0],       *)
(*   threaded download) -> ice-area cell (count_ice_pixels loop).          *)
(* Dates are proleptic Gregorian ordinals (datetime.date.toordinal),       *)
(* timedeltas are Python's normalised (days, seconds, microseconds).       *)
(***************************************************************************)
EXTENDS Integers, Sequences, FiniteSets, TLC

VARIABLES
    pc,                \* position of the run in the notebook
    start,             \* datetime: [date, sec, us]
    end,               \* datetime: [date, sec, us]
    n_chunks,          \* integer literal of the partition cell
    tdelta,            \* timedelta: [days, seconds, microseconds]
    edges,             \* list of ISO dates, each <<year, month, day>>
    slots,             \* list of (edges[i], edges[i+1]) pairs
    ns,                \* names bound in the kernel namespace
    err,               \* exception that aborted the running cell, or "none"
    err_index,         \* request index carried by the exception (0: none)
    cell,              \* request-list cell being run: "none", "sar", "mask",
                       \* or "true_color" (Process API notebook, Example 8)
    seed,              \* the imagery the provider holds (environment)
    list_of_requests,  \* list of requests, then of download requests
    status,            \* per request: "pending", "inflight", "done", "failed"
    sent,              \* per request: number of network calls made for it
    worker,            \* per worker: the request it is running (0: idle)
    pool_cell,         \* the cell whose batch was last submitted to the pool
    data_list,         \* result container of the running download, by index
    failure,           \* index of the first failure encountered (0: none)
    fail_order,        \* indices of the failed requests, in order of failure
    data,              \* result list of the SAR cell
    mask_data,         \* result list of the ice-mask cell
    area_covered_ice,  \* the ice-area time series
    earlier,           \* what an earlier execution of the cell now executed
                       \* again was given and bound (<<>>: nothing recorded)
    fig                \* what the plot cell last executed has drawn

partition_vars == <<start, end, n_chunks, tdelta, edges, slots>>
pool_vars == <<status, sent, worker, pool_cell, data_list, failure, fail_order>>
result_vars == <<data, mask_data, area_covered_ice>>

vars == <<pc, start, end, n_chunks, tdelta, edges, slots, ns, err, err_index,
          cell, seed, list_of_requests, status, sent, worker, pool_cell,
          data_list, failure, fail_order, data, mask_data, area_covered_ice,
          earlier, fig>>

----------------------------------------------------------------------------
(* Bounds of the model.                                                    *)

MaxSpan == 5           \* largest generic span end - start, in days
MaxChunks == 5         \* largest generic n_chunks

----------------------------------------------------------------------------
(* datetime / timedelta arithmetic, as CPython computes it.                *)

SecondsPerDay == 86400
UsPerSecond == 1000000

\* timedelta(days, seconds, microseconds) normalises its fields so that
\* 0 <= seconds < 86400 and 0 <= microseconds < 1000000.
timedelta(d, s, u) ==
    LET s2 == s + (u \div UsPerSecond)
        u2 == u % UsPerSecond
        d2 == d + (s2 \div SecondsPerDay)
        s3 == s2 % SecondsPerDay
    IN  [days |-> d2, seconds |-> s3, microseconds |-> u2]

IsLeap(y) == (y % 4 = 0) /\ ((y % 100 # 0) \/ (y % 400 = 0))

DaysInMonth(y, m) ==
    IF m = 2 THEN (IF IsLeap(y) THEN 29 ELSE 28)
    ELSE IF m \in {4, 6, 9, 11} THEN 30 ELSE 31

\* number of days in the year preceding the first day of month m (non-leap)
DaysBeforeMonthTable == <<0, 31, 59, 90, 120, 151, 181, 212, 243, 273, 304, 334>>

DaysBeforeMonth(y, m) ==
    DaysBeforeMonthTable[m] + (IF m > 2 /\ IsLeap(y) THEN 1 ELSE 0)

DaysBeforeYear(y) ==
    LET p == y - 1 IN p * 365 + (p \div 4) - (p \div 100) + (p \div 400)

\* date(y, m, d).toordinal()
ymd2ord(y, m, d) == DaysBeforeYear(y) + DaysBeforeMonth(y, m) + d

\* date.fromordinal(n) as <<year, month, day>>
ord2ymd(ordinal) ==
    LET n0 == ordinal - 1
        n400 == n0 \div 146097
        r400 == n0 % 146097
        n100 == r400 \div 36524
        r100 == r400 % 36524
        n4 == r100 \div 1461
        r4 == r100 % 1461
        n1 == r4 \div 365
        n == r4 % 365
        year == n400 * 400 + 1 + n100 * 100 + n4 * 4 + n1
        leapyear == (n1 = 3) /\ ((n4 # 24) \/ (n100 = 3))
        month0 == (n + 50) \div 32
        preceding0 == DaysBeforeMonthTable[month0]
                        + (IF month0 > 2 /\ leapyear THEN 1 ELSE 0)
        month == IF preceding0 > n THEN month0 - 1 ELSE month0
        preceding == IF preceding0 > n
                     THEN preceding0
                            - (DaysInMonth(2001, month)
                                 + (IF month = 2 /\ leapyear THEN 1 ELSE 0))
                     ELSE preceding0
    IN  IF n1 = 4 \/ n100 = 4
        THEN <<year - 1, 12, 31>>
        ELSE <<year, month, n - preceding + 1>>

\* datetime.datetime(y, m, d) plus a time of day in seconds
datetime(y, m, d, s) == [date |-> ymd2ord(y, m, d), sec |-> s, us |-> 0]

\* datetime - datetime -> timedelta
DatetimeSub(a, b) == timedelta(a.date - b.date, a.sec - b.sec, a.us - b.us)

\* -timedelta
TimedeltaNeg(t) == timedelta(-t.days, -t.seconds, -t.microseconds)

\* timedelta / n for n > 0: the quotient of the total microseconds, rounded
\* to the nearest microsecond, ties to even.  Computed field by field, which
\* equals the division of the total because every field remainder is carried
\* into the next smaller unit.
TimedeltaDivPos(t, n) ==
    LET qd == t.days \div n
        rd == t.days % n
        t2 == rd * SecondsPerDay + t.seconds
        qs == t2 \div n
        rs == t2 % n
        t3 == rs * UsPerSecond + t.microseconds
        qu == t3 \div n
        ru == t3 % n
        up == IF (2 * ru > n) \/ (2 * ru = n /\ qu % 2 = 1) THEN 1 ELSE 0
    IN  timedelta(qd, qs, qu + up)

\* a quotient rounded down to whole days
TimedeltaWholeDays(t, n) == timedelta(t.days \div n, 0, 0)

\* timedelta / n for n # 0
TimedeltaDiv(t, n) ==
    IF n > 0 THEN TimedeltaDivPos(t, n) ELSE TimedeltaDivPos(TimedeltaNeg(t), -n)

\* i * timedelta
TimedeltaMul(i, t) == timedelta(i * t.days, i * t.seconds, i * t.microseconds)

\* datetime + timedelta -> datetime
DatetimeAdd(a, t) ==
    LET r == timedelta(a.date + t.days, a.sec + t.seconds, a.us + t.microseconds)
    IN  [date |-> r.days, sec |-> r.seconds, us |-> r.microseconds]

\* a date rounded up: the next day as soon as the time of day is not 0
DateCeil(dt) == IF dt.sec > 0 \/ dt.us > 0 THEN dt.date + 1 ELSE dt.date

\* datetime.date(): drops the time of day
DateOf(dt) == dt.date

\* date.isoformat(): "YYYY-MM-DD", modelled by its three zero-padded fields
isoformat(ordinal) == ord2ymd(ordinal)

\* range(n) as the sequence 0, 1, ..., n-1 (empty for n <= 0)
range(n) == [k \in 1..n |-> k - 1]

----------------------------------------------------------------------------
(* The partition cell.                                                     *)

\* a partition whose edge list runs over range(n_chunks + 1)
EdgesOfInclusive(s, td, n) ==
    [k \in 1..(n + 1) |-> isoformat(DateOf(DatetimeAdd(s, TimedeltaMul(k - 1, td))))]

\* a partition whose edge list runs over range(n_chunks - 1)
EdgesOfOneFewer(s, td, n) ==
    [k \in 1..(n - 1) |-> isoformat(DateOf(DatetimeAdd(s, TimedeltaMul(k - 1, td))))]

\* edges = [(start + i * tdelta).date().isoformat() for i in range(n_chunks)]
EdgesOf(s, td, n) ==
    [k \in 1..n |-> isoformat(DateOf(DatetimeAdd(s, TimedeltaMul(range(n)[k], td))))]

\* a slot list whose pairs are built as (edges[i + 1], edges[i])
SlotsOfSwapped(e) ==
    [k \in 1..(Len(e) - 1) |-> <<e[k + 1], e[k]>>]

\* a slot list whose pairs are built as (edges[i], edges[i])
SlotsOfSame(e) ==
    [k \in 1..(Len(e) - 1) |-> <<e[k], e[k]>>]

\* a slot list whose pairs all start at the first edge: (edges[0], edges[i + 1])
SlotsOfFromFirst(e) ==
    [k \in 1..(Len(e) - 1) |-> <<e[1], e[k + 1]>>]

\* slots = [(edges[i], edges[i + 1]) for i in range(len(edges) - 1)]
SlotsOf(e) ==
    [k \in 1..(Len(e) - 1) |-> <<e[range(Len(e) - 1)[k] + 1], e[range(Len(e) - 1)[k] + 2]>>]

\* no plot cell has been executed
NoFigure == [kind |-> "none", axes |-> <<>>, x |-> <<>>, y |-> <<>>,
             ticks |-> <<>>, labels |-> <<>>]

\* everything a fresh kernel has not bound yet
InitRest ==
    /\ err_index = 0
    /\ cell = "none"
    /\ list_of_requests = <<>>
    /\ status = <<>>
    /\ sent = <<>>
    /\ worker = <<>>
    /\ pool_cell = "none"
    /\ data_list = <<>>
    /\ failure = 0
    /\ fail_order = <<>>
    /\ data = <<>>
    /\ mask_data = <<>>
    /\ area_covered_ice = <<>>
    /\ earlier = <<>>
    /\ fig = NoFigure

NoTimedelta == [days |-> 0, seconds |-> 0, microseconds |-> 0]

\* The literals a user may put in the partition cell.
StartDates == { <<2022, 9, 1>>, <<2019, 1, 1>>, <<2020, 2, 27>>, <<2019, 12, 30>> }
StartTimes == { 0, 64800 }
Spans == (-1 .. MaxSpan) \cup { 241, 364 }
ChunkCounts == (-1 .. MaxChunks) \cup { 13, 17 }

InitPartition ==
    /\ pc = "partition"
    /\ \E d \in StartDates, s \in StartTimes, span \in Spans :
         /\ start = datetime(d[1], d[2], d[3], s)
         /\ end = [date |-> ymd2ord(d[1], d[2], d[3]) + span, sec |-> 0, us |-> 0]
    /\ n_chunks \in ChunkCounts
    /\ tdelta = NoTimedelta
    /\ edges = <<>>
    /\ slots = <<>>
    /\ ns = {"start", "end", "n_chunks"}
    /\ err = "none"
    /\ seed = 0
    /\ InitRest

\* tdelta = (end - start) / n_chunks; edges = ...; slots = ...
PartitionCell ==
    /\ pc = "partition"
    /\ IF n_chunks = 0
       THEN /\ err' = "ZeroDivisionError"
            /\ pc' = "aborted"
            /\ UNCHANGED <<tdelta, edges, slots, ns>>
       ELSE /\ tdelta' = TimedeltaDiv(DatetimeSub(end, start), n_chunks)
            /\ edges' = EdgesOf(start, tdelta', n_chunks)
            /\ slots' = SlotsOf(edges')
            /\ ns' = ns \cup {"tdelta", "edges", "slots"}
            /\ pc' = "partitioned"
            /\ err' = "none"
    /\ UNCHANGED <<start, end, n_chunks, err_index, cell, seed, earlier, fig, list_of_requests>>
    /\ UNCHANGED <<pool_vars, result_vars>>

NextPartition == PartitionCell

SpecPartition == InitPartition /\ [][NextPartition]_vars

\* Executing the partition cell again.  A cell can be executed any number
\* of times; each execution runs all of its lines, so it binds start, end
\* and n_chunks to the literals the cell then holds.

\* name += value: the list an earlier execution bound is extended in place
Extend(old, new) == old \o new

\* name = value: the name is bound to the new value whatever it held
Rebind(old, new) == new

\* the literals of the cell when it is executed again
RerunSpans == { 3, 241 }
RerunChunks == { 0, 2, 3, 17 }

\* what the execution that ends in the current state was given and bound
Computation ==
    [start |-> start, end |-> end, n_chunks |-> n_chunks,
     edges |-> edges, slots |-> slots]

InitRerun ==
    /\ InitPartition
    /\ start.date = ymd2ord(2022, 9, 1)
    /\ end.date - start.date \in RerunSpans
    /\ n_chunks \in RerunChunks

RerunPartitionCell ==
    /\ pc \in {"partitioned", "aborted"}
    /\ \E s \in StartTimes, span \in RerunSpans, n \in RerunChunks :
         /\ start' = datetime(2022, 9, 1, s)
         /\ end' = [date |-> ymd2ord(2022, 9, 1) + span, sec |-> 0, us |-> 0]
         /\ n_chunks' = n
    /\ IF n_chunks' = 0
       THEN /\ err' = "ZeroDivisionError"
            /\ pc' = "aborted"
            /\ UNCHANGED <<tdelta, edges, slots, ns>>
       ELSE /\ tdelta' = TimedeltaDiv(DatetimeSub(end', start'), n_chunks')
            /\ edges' = Rebind(edges, EdgesOf(start', tdelta', n_chunks'))
            /\ slots' = Rebind(slots, SlotsOf(edges'))
            /\ ns' = ns \cup {"tdelta", "edges", "slots"}
            /\ pc' = "partitioned"
            /\ err' = "none"
    /\ \/ earlier' = earlier
       \/ pc = "partitioned" /\ earlier' = <<Computation>>
    /\ UNCHANGED <<err_index, cell, seed, list_of_requests, fig>>
    /\ UNCHANGED <<pool_vars, result_vars>>

NextRerun ==
    \/ PartitionCell
    \/ RerunPartitionCell

SpecRerun == InitRerun /\ [][NextRerun]_vars

----------------------------------------------------------------------------
(* The evalscripts.  A sample's VV is given by its decibel value           *)
(* log = 10 * Math.log(VV) / Math.LN10 in tenths of a decibel; VV = 0 has  *)
(* log = -Infinity and VV < 0 has log = NaN.  A toDb value v stands for    *)
(* the number v / 30000.                                                   *)

Num(v) == [k |-> "num", v |-> v]
NaN == [k |-> "nan", v |-> 0]
NegInf == [k |-> "ninf", v |-> 0]

\* return Math.max(0, (log + 20) / 30)
toDb(log) ==
    IF log.k = "nan" THEN NaN
    ELSE IF log.k = "ninf" THEN Num(0)
    ELSE Num(IF (log.v + 200) * 100 > 0 THEN (log.v + 200) * 100 ELSE 0)

\* comparisons of a toDb value with a literal (in 1/30000): false on NaN
Gt(x, lit) == x.k = "num" /\ x.v > lit
Lt(x, lit) == x.k = "num" /\ x.v < lit

\* evalscript_sar: return [toDb(VV), sample.dataMask]
evaluatePixel_sar(sample) == <<toDb(sample.VV), sample.dataMask>>

\* a mask script that writes the ice flag as a colour value, 255
evaluatePixel_mask255(sample) ==
    LET VVdB == toDb(sample.VV)
    IN  IF Gt(VVdB, -30) /\ Lt(VVdB, 6000)
        THEN <<0, 0, 255, sample.dataMask, 0>>
        ELSE IF Gt(VVdB, 6000) /\ Lt(VVdB, 30000)
        THEN <<0, 255, 255, sample.dataMask, 255>>
        ELSE <<0, 0, 0, sample.dataMask, 0>>

\* evalscript_mask: [r, g, b, dataMask, iceMask]
evaluatePixel_mask(sample) ==
    LET VVdB == toDb(sample.VV)
    IN  IF Gt(VVdB, -30) /\ Lt(VVdB, 6000)
        THEN <<0, 0, 255, sample.dataMask, 0>>
        ELSE IF Gt(VVdB, 6000) /\ Lt(VVdB, 30000)
        THEN <<0, 255, 255, sample.dataMask, 1>>
        ELSE <<0, 0, 0, sample.dataMask, 0>>

----------------------------------------------------------------------------
(* The imagery provider (environment): what one request returns.           *)

NPix == 3              \* pixels of a raster
MaxSeed == 1           \* the provider holds one of MaxSeed + 1 archives
MaxBatch == 4          \* largest number of windows of a run

\* decibel values a sample can have (tenths of a decibel)
Levels == << NegInf, Num(-250), Num(-141), Num(-140), Num(-100),
             Num(-20), Num(100), Num(150), NaN >>

\* the mosaicked sample of pixel p for a time interval
SampleOf(sd, time_interval, p) ==
    LET h == sd + time_interval[1][3] + 2 * time_interval[2][3] + 4 * p
    IN  [VV |-> Levels[(h % Len(Levels)) + 1],
         dataMask |-> IF h % 5 = 0 THEN 0 ELSE 1]

\* the decoded raster the provider returns for a download request
Response(sd, req) ==
    [p \in 1..NPix |->
        IF req.evalscript = "evalscript_mask"
        THEN evaluatePixel_mask(SampleOf(sd, req.time_interval, p))
        ELSE evaluatePixel_sar(SampleOf(sd, req.time_interval, p))]

----------------------------------------------------------------------------
(* The request-list cells.                                                 *)

max_threads == 5

\* the DownloadRequest a SentinelHubRequest holds in download_list[0]
DownloadRequest(evalscript, time_interval, data_folder) ==
    [evalscript |-> evalscript, time_interval |-> time_interval,
     data_folder |-> data_folder]

\* get_sar_request(time_interval)
get_sar_request(time_interval) ==
    [evalscript |-> "evalscript_sar",
     time_interval |-> time_interval,
     data_folder |-> "./results",
     download_list |->
        <<DownloadRequest("evalscript_sar", time_interval, "./results")>>]

\* get_ice_mask_request(time_interval)
get_ice_mask_request(time_interval) ==
    [evalscript |-> "evalscript_mask",
     time_interval |-> time_interval,
     data_folder |-> "./results_mask",
     download_list |->
        <<DownloadRequest("evalscript_mask", time_interval, "./results_mask")>>]

\* get_true_color_request(time_interval) of the Process API notebook
get_true_color_request(time_interval) ==
    [evalscript |-> "evalscript_true_color",
     time_interval |-> time_interval,
     data_folder |-> "none",
     download_list |->
        <<DownloadRequest("evalscript_true_color", time_interval, "none")>>]

get_request(c, time_interval) ==
    IF c = "mask" THEN get_ice_mask_request(time_interval)
    ELSE IF c = "true_color" THEN get_true_color_request(time_interval)
    ELSE get_sar_request(time_interval)

\* a request list that is built from the windows in reverse order
RequestsOfReversed(c, sl) ==
    [k \in 1..Len(sl) |-> get_request(c, sl[Len(sl) + 1 - k])]

\* list_of_requests = [get_..._request(slot) for slot in slots]
RequestsOf(c, sl) ==
    [k \in 1..Len(sl) |-> get_request(c, sl[k])]

\* list_of_requests = [request.download_list[0] for request in list_of_requests]
DownloadListOf(reqs) ==
    [k \in 1..Len(reqs) |-> reqs[k].download_list[1]]

\* The run of the ice-monitoring notebook: the literals of its partition
\* cell, and the archive the provider holds.
RunSpans == { 4, 241 }

InitRun ==
    /\ pc = "partition"
    /\ start = datetime(2022, 9, 1, 0)
    /\ \E span \in RunSpans :
         end = [date |-> ymd2ord(2022, 9, 1) + span, sec |-> 0, us |-> 0]
    /\ n_chunks \in 0..(MaxBatch + 1)
    /\ tdelta = NoTimedelta
    /\ edges = <<>>
    /\ slots = <<>>
    /\ ns = {"start", "end", "n_chunks"}
    /\ err = "none"
    /\ seed \in 0..MaxSeed
    /\ InitRest

\* line 1 of a request-list cell: one request per slot
BuildRequests ==
    /\ \/ pc = "partitioned" /\ cell' = "sar"
       \/ pc = "downloaded" /\ cell = "sar" /\ cell' = "mask"
    /\ list_of_requests' = RequestsOf(cell', slots)
    /\ ns' = ns \cup {"list_of_requests"}
    /\ pc' = "built"
    /\ UNCHANGED <<partition_vars, pool_vars, result_vars, err, err_index, seed, earlier, fig>>

\* a cell whose remaining lines still run after one of its lines has raised
CellContinues(line) == line

\* an exception raised by a line of a cell ends the cell
CellAfterRaise(line) == "aborted"

\* line 1 of a request-list cell raises: the constructor called for one of
\* the slots rejects its arguments, the exception leaves the comprehension
\* unwrapped and list_of_requests is not assigned
BuildFails ==
    /\ \/ pc = "partitioned" /\ cell' = "sar"
       \/ pc = "downloaded" /\ cell = "sar" /\ cell' = "mask"
    /\ Len(slots) > 0
    /\ err' = "ValueError"
    /\ err_index' = 0
    /\ pc' = CellAfterRaise("listed")
    /\ UNCHANGED <<partition_vars, pool_vars, result_vars, seed, earlier, fig, ns,
                   list_of_requests>>

\* line 2 of a request-list cell: each request replaced by download_list[0]
TakeDownloadList ==
    /\ pc = "built"
    /\ list_of_requests' = DownloadListOf(list_of_requests)
    /\ pc' = "listed"
    /\ UNCHANGED <<partition_vars, pool_vars, result_vars, err, err_index,
                   seed, earlier, fig, cell, ns>>

----------------------------------------------------------------------------
(* SentinelHubDownloadClient.download(list_of_requests, max_threads=5):    *)
(* the order-preserving worker pool.                                       *)

None == <<>>

IndicesWith(st, v) == { i \in 1..Len(st) : st[i] = v }

\* a pull that also sees the requests other workers are running
NextUnfinished(st) ==
    CHOOSE i \in IndicesWith(st, "pending") \cup IndicesWith(st, "inflight") :
        \A j \in IndicesWith(st, "pending") \cup IndicesWith(st, "inflight") : i <= j

\* the next unassigned request: the pending request of lowest index
NextUnassigned(st) ==
    CHOOSE i \in IndicesWith(st, "pending") :
        \A j \in IndicesWith(st, "pending") : i <= j

\* a container in which a result takes the first free position
StoreByCompletion(dl, i, r) ==
    LET free == CHOOSE j \in 1..Len(dl) :
                    dl[j] = None /\ \A h \in 1..(j - 1) : dl[h] # None
    IN  [dl EXCEPT ![free] = r]

\* the result of request i is written to position i of the container
StoreResult(dl, i, r) == [dl EXCEPT ![i] = r]

\* a register that keeps the latest failure
LatestFailure(f, i) == i

\* the register of the first failure encountered
FirstFailure(f, i) == IF f = 0 THEN i ELSE f

\* a batch counted as successful as soon as nothing is left to run
BatchDrained(st) == \A i \in 1..Len(st) : st[i] \in {"done", "failed"}

\* the batch succeeded: every request was downloaded
BatchSucceeded(st) == \A i \in 1..Len(st) : st[i] = "done"

\* the batch failed: some request failed and no request is left running
BatchFailed(st) ==
    /\ \E i \in 1..Len(st) : st[i] = "failed"
    /\ \A i \in 1..Len(st) : st[i] \in {"done", "failed"}

\* a failed request that is put back among the unassigned requests
StatusRetry(st, i) == [st EXCEPT ![i] = "pending"]

\* a failure that is lost: the request stays in flight for ever
StatusLost(st, i) == st

\* no retry: a failed request is failed for good
StatusAfterFailure(st, i) == [st EXCEPT ![i] = "failed"]

\* a worker that pulls a request whether or not it is still running one
WorkerAny(wk, w) == TRUE

\* worker w is free to pull a request
WorkerIdle(wk, w) == wk[w] = 0

\* the call: a pre-sized container, max_threads idle workers and every
\* request submitted to the pool
Submit ==
    /\ pc = "listed"
    /\ status' = [i \in 1..Len(list_of_requests) |-> "pending"]
    /\ sent' = [i \in 1..Len(list_of_requests) |-> 0]
    /\ worker' = [w \in 1..max_threads |-> 0]
    /\ pool_cell' = cell
    /\ data_list' = [i \in 1..Len(list_of_requests) |-> None]
    /\ failure' = 0
    /\ fail_order' = <<>>
    /\ pc' = "downloading"
    /\ UNCHANGED <<partition_vars, result_vars, err, err_index, seed, earlier, fig, cell, ns,
                   list_of_requests>>

\* a free worker pulls the next unassigned request and starts its call
WorkerPull(w) ==
    /\ pc = "downloading"
    /\ WorkerIdle(worker, w)
    /\ IndicesWith(status, "pending") # {}
    /\ LET i == NextUnassigned(status)
       IN  /\ status' = [status EXCEPT ![i] = "inflight"]
           /\ sent' = [sent EXCEPT ![i] = @ + 1]
           /\ worker' = [worker EXCEPT ![w] = i]
    /\ UNCHANGED <<partition_vars, result_vars, err, err_index, seed, earlier, fig, cell, ns,
                   list_of_requests, pool_cell, data_list, failure, fail_order, pc>>

\* the call of worker w returns: the raster goes to the container
WorkerFinish(w) ==
    /\ pc = "downloading"
    /\ worker[w] # 0
    /\ LET i == worker[w]
       IN  /\ status' = [status EXCEPT ![i] = "done"]
           /\ data_list' = StoreResult(data_list, i,
                                       Response(seed, list_of_requests[i]))
    /\ worker' = [worker EXCEPT ![w] = 0]
    /\ UNCHANGED <<partition_vars, result_vars, err, err_index, seed, earlier, fig, cell, ns,
                   list_of_requests, sent, pool_cell, failure, fail_order, pc>>

\* the call of worker w fails
WorkerFail(w) ==
    /\ pc = "downloading"
    /\ worker[w] # 0
    /\ LET i == worker[w]
       IN  /\ status' = StatusAfterFailure(status, i)
           /\ failure' = FirstFailure(failure, i)
           /\ fail_order' = Append(fail_order, i)
    /\ worker' = [worker EXCEPT ![w] = 0]
    /\ UNCHANGED <<partition_vars, result_vars, err, err_index, seed, earlier, fig, cell, ns,
                   list_of_requests, sent, pool_cell, data_list, pc>>

\* download returns the container; the cell binds it to data / mask_data
Return ==
    /\ pc = "downloading"
    /\ BatchSucceeded(status)
    /\ IF cell = "mask"
       THEN /\ mask_data' = data_list
            /\ ns' = ns \cup {"mask_data"}
            /\ UNCHANGED data
       ELSE /\ data' = data_list
            /\ ns' = ns \cup {"data"}
            /\ UNCHANGED mask_data
    /\ pc' = "downloaded"
    /\ UNCHANGED <<partition_vars, pool_vars, err, err_index, seed, earlier, fig, cell,
                   list_of_requests, area_covered_ice>>

\* download raises: the cell is aborted and binds nothing
Raise ==
    /\ pc = "downloading"
    /\ BatchFailed(status)
    /\ err' = "BatchDownloadError"
    /\ err_index' = failure
    /\ pc' = "aborted"
    /\ UNCHANGED <<partition_vars, pool_vars, result_vars, seed, earlier, fig, cell, ns,
                   list_of_requests>>

----------------------------------------------------------------------------
(* The ice-area cell.                                                      *)

resolution_s1 == 20 * 20

RECURSIVE SumBand(_, _, _)
\* np.sum(image[:, :, band]) over the first n pixels; integer addition is
\* associative, so the pixels are added in halves
SumBand(image, band, n) ==
    IF n = 0 THEN 0
    ELSE IF n = 1 THEN image[1][band + 1]
    ELSE LET h == n \div 2
         IN  SumBand(image, band, h)
               + SumBand(SubSeq(image, h + 1, n), band, n - h)

\* image[:, :, band] raises IndexError on a raster that has no such band
IndexErrorAt(image, band) ==
    \E p \in 1..Len(image) : Len(image[p]) <= band

\* a pixel count taken from band 3 (dataMask)
count_mask_pixels(image) == SumBand(image, 3, Len(image))

\* def count_ice_pixels(image): np.sum(image[:, :, 4])
count_ice_pixels(image) == SumBand(image, 4, Len(image))

\* x // 1000000: the quotient rounded down
FloorDiv(x, d) == <<x \div d, 1>>

\* x / 1000000 as the exact fraction <<numerator, denominator>>
TrueDiv(x, d) == <<x, d>>

RECURSIVE PrependLoop(_, _, _)
\* a loop that inserts each value at the front of the list
PrependLoop(md, idx, acc) ==
    IF idx > Len(md) THEN acc
    ELSE PrependLoop(md, idx + 1,
           <<TrueDiv(count_ice_pixels(md[idx]) * resolution_s1, 1000000)>> \o acc)

RECURSIVE AreaLoop(_, _, _)
\* for idx, image in enumerate(mask_data): area_covered_ice.append(...)
AreaLoop(md, idx, acc) ==
    IF idx > Len(md) THEN acc
    ELSE AreaLoop(md, idx + 1,
           Append(acc, TrueDiv(count_ice_pixels(md[idx]) * resolution_s1, 1000000)))

\* the first image of mask_data on which count_ice_pixels raises (0: none)
FirstRaising(md) ==
    IF \E k \in 1..Len(md) : IndexErrorAt(md[k], 4)
    THEN CHOOSE k \in 1..Len(md) :
            /\ IndexErrorAt(md[k], 4)
            /\ \A j \in 1..(k - 1) : ~IndexErrorAt(md[j], 4)
    ELSE 0

\* resolution_s1 = 20 * 20; area_covered_ice = []; for ...: append.
\* Nothing in the cell catches an exception of count_ice_pixels: the loop
\* stops at the image that raises, with the values appended so far.
AreaCell ==
    /\ pc = "downloaded"
    /\ cell = "mask"
    /\ LET k == FirstRaising(mask_data)
       IN  IF k = 0
           THEN /\ area_covered_ice' = AreaLoop(mask_data, 1, <<>>)
                /\ pc' = "area_done"
                /\ UNCHANGED <<err, err_index>>
           ELSE /\ area_covered_ice' =
                      AreaLoop(SubSeq(mask_data, 1, k - 1), 1, <<>>)
                /\ err' = "IndexError"
                /\ err_index' = 0
                /\ pc' = CellAfterRaise("area_done")
    /\ ns' = ns \cup {"resolution_s1", "area_covered_ice"}
    /\ UNCHANGED <<partition_vars, pool_vars, data, mask_data,
                   seed, earlier, fig, cell, list_of_requests>>

Next ==
    \/ PartitionCell
    \/ BuildRequests
    \/ BuildFails
    \/ TakeDownloadList
    \/ Submit
    \/ \E w \in 1..max_threads : WorkerPull(w)
    \/ \E w \in 1..max_threads : WorkerFinish(w)
    \/ \E w \in 1..max_threads : WorkerFail(w)
    \/ Return
    \/ Raise
    \/ AreaCell

Spec == InitRun /\ [][Next]_vars

----------------------------------------------------------------------------
(* One batch download on its own: the run taken up where the request list  *)
(* of the first request-list cell is ready, for batches of up to MaxPool   *)
(* requests.                                                               *)

MaxPool == 6           \* largest number of requests of a batch

InitPool ==
    /\ pc = "listed"
    /\ start = datetime(2022, 9, 1, 0)
    /\ end = datetime(2023, 4, 30, 0)
    /\ n_chunks \in 1..(MaxPool + 1)
    /\ tdelta = TimedeltaDiv(DatetimeSub(end, start), n_chunks)
    /\ edges = EdgesOf(start, tdelta, n_chunks)
    /\ slots = SlotsOf(edges)
    /\ ns = {"start", "end", "n_chunks", "tdelta", "edges", "slots",
             "list_of_requests"}
    /\ err = "none"
    /\ seed = 0
    /\ err_index = 0
    /\ cell = "sar"
    /\ list_of_requests = DownloadListOf(RequestsOf("sar", slots))
    /\ status = <<>>
    /\ sent = <<>>
    /\ worker = <<>>
    /\ pool_cell = "none"
    /\ data_list = <<>>
    /\ failure = 0
    /\ fail_order = <<>>
    /\ data = <<>>
    /\ mask_data = <<>>
    /\ area_covered_ice = <<>>
    /\ earlier = <<>>
    /\ fig = NoFigure

NextPool ==
    \/ Submit
    \/ \E w \in 1..max_threads : WorkerPull(w)
    \/ \E w \in 1..max_threads : WorkerFinish(w)
    \/ \E w \in 1..max_threads : WorkerFail(w)
    \/ Return
    \/ Raise

SpecPool == InitPool /\ [][NextPool]_vars

\* The threads of the pool are scheduled fairly and every network call
\* returns or fails.
FairPool ==
    /\ WF_vars(Submit)
    /\ \A w \in 1..max_threads : WF_vars(WorkerPull(w))
    /\ \A w \in 1..max_threads : WF_vars(WorkerFinish(w) \/ WorkerFail(w))
    /\ WF_vars(Return)
    /\ WF_vars(Raise)

MaxFair == 4           \* largest batch of the runs checked for progress

InitFair == InitPool /\ n_chunks <= MaxFair + 1

FairSpecPool == InitFair /\ [][NextPool]_vars /\ FairPool

----------------------------------------------------------------------------
(* The ice-area cell on its own: the run taken up where mask_data has been *)
(* downloaded, for the rasters a batch of up to MaxRasters windows can     *)
(* hold.  Raster k of a series has (k - 1) * u ice pixels; at most one     *)
(* raster of a series is not a mask raster but a two-band raster.          *)

MaxRasters == 16       \* largest number of rasters of a series
MaxUnit == 2           \* largest small step of the ice-pixel count

Units == (0..MaxUnit) \cup {100}

\* what evalscript_mask returns for an ice sample and for a water sample
IcePixel == evaluatePixel_mask([VV |-> Num(-100), dataMask |-> 1])
WaterPixel == evaluatePixel_mask([VV |-> Num(-250), dataMask |-> 1])

\* a mask raster of sz pixels of which the first ice are ice
MaskRaster(ice, sz) ==
    [p \in 1..sz |-> IF p <= ice THEN IcePixel ELSE WaterPixel]

\* a raster of sz pixels with the two bands of evalscript_sar
SarRaster(sz) ==
    [p \in 1..sz |-> evaluatePixel_sar([VV |-> Num(-100), dataMask |-> 1])]

\* n rasters, raster k with (k - 1) * u ice pixels; raster bad has two bands
SeriesOf(n, u, bad) ==
    [k \in 1..n |->
        IF k = bad THEN SarRaster((n - 1) * u + 1)
        ELSE MaskRaster((k - 1) * u, (n - 1) * u + 1)]

InitReduce ==
    /\ pc = "downloaded"
    /\ start = datetime(2022, 9, 1, 0)
    /\ end = datetime(2023, 4, 30, 0)
    /\ n_chunks \in 2..(MaxRasters + 1)
    /\ tdelta = TimedeltaDiv(DatetimeSub(end, start), n_chunks)
    /\ edges = EdgesOf(start, tdelta, n_chunks)
    /\ slots = SlotsOf(edges)
    /\ ns = {"start", "end", "n_chunks", "tdelta", "edges", "slots",
             "list_of_requests", "data", "mask_data"}
    /\ err = "none"
    /\ err_index = 0
    /\ seed = 0
    /\ cell = "mask"
    /\ list_of_requests = DownloadListOf(RequestsOf("mask", slots))
    /\ status = [k \in 1..Len(slots) |-> "done"]
    /\ sent = [k \in 1..Len(slots) |-> 1]
    /\ worker = [w \in 1..max_threads |-> 0]
    /\ pool_cell = "mask"
    /\ \E u \in Units : \E bad \in 0..Len(slots) :
          mask_data = SeriesOf(Len(slots), u, bad)
    /\ data_list = mask_data
    /\ failure = 0
    /\ fail_order = <<>>
    /\ data = [k \in 1..Len(slots) |->
                 Response(seed, DownloadListOf(RequestsOf("sar", slots))[k])]
    /\ area_covered_ice = <<>>
    /\ earlier = <<>>
    /\ fig = NoFigure

NextReduce == AreaCell

SpecReduce == InitReduce /\ [][NextReduce]_vars

----------------------------------------------------------------------------
(* The plot cells, and the ice-area cell executed again: the run taken up  *)
(* where a batch has been downloaded, for the three request-list cells     *)
(* (SAR and ice mask of the ice-monitoring notebook, true colour of the    *)
(* Process API notebook) and partitions of up to MaxPlotChunks chunks.     *)

MaxPlotChunks == 18    \* largest n_chunks of a plotted run

\* ncols and nrows of the plot cell that follows request-list cell c
GridOf(c) ==
    IF c = "true_color" THEN [ncols |-> 4, nrows |-> 3]
    ELSE [ncols |-> 4, nrows |-> 4]

\* a subplot taken as axs[idx % ncols][idx // ncols]
SubplotTransposed(idx, ncols) == <<idx % ncols, idx \div ncols>>

\* ax = axs[idx // ncols][idx % ncols]
SubplotOf(idx, ncols) == <<idx \div ncols, idx % ncols>>

\* axs[r][c] raises IndexError outside the nrows x ncols array
OutsideGrid(rc, g) == rc[1] >= g.nrows \/ rc[2] >= g.ncols

\* the number of images a plot loop over n images draws before it raises
DrawnOf(n, g) ==
    IF \E idx \in 0..(n - 1) : OutsideGrid(SubplotOf(idx, g.ncols), g)
    THEN CHOOSE idx \in 0..(n - 1) :
            /\ OutsideGrid(SubplotOf(idx, g.ncols), g)
            /\ \A j \in 0..(idx - 1) : ~OutsideGrid(SubplotOf(j, g.ncols), g)
    ELSE n

\* the decoded PNG the provider returns for a true-colour request
TrueColorResponse(sd, req) ==
    [p \in 1..NPix |->
        LET v == 255 * SampleOf(sd, req.time_interval, p).dataMask
        IN  <<v, v, v>>]

\* np.arange(lo, hi, step=step) for a positive step
arange(lo, hi, step) ==
    [k \in 1..((hi - lo + step - 1) \div step) |-> lo + (k - 1) * step]

\* the literal list of the time-series plot cell
xlabels == << "September", "October", "November", "December",
              "January", "February", "March", "April" >>

InitPlot ==
    /\ pc = "downloaded"
    /\ cell \in {"sar", "mask", "true_color"}
    /\ start = IF cell = "true_color" THEN datetime(2019, 1, 1, 0)
               ELSE datetime(2022, 9, 1, 0)
    /\ end = IF cell = "true_color" THEN datetime(2019, 12, 31, 0)
             ELSE datetime(2023, 4, 30, 0)
    /\ n_chunks \in 1..MaxPlotChunks
    /\ tdelta = TimedeltaDiv(DatetimeSub(end, start), n_chunks)
    /\ edges = EdgesOf(start, tdelta, n_chunks)
    /\ slots = SlotsOf(edges)
    /\ ns = {"start", "end", "n_chunks", "tdelta", "edges", "slots",
             "list_of_requests", "data"}
            \cup (IF cell = "mask" THEN {"mask_data"} ELSE {})
    /\ err = "none"
    /\ err_index = 0
    /\ seed \in 0..MaxSeed
    /\ list_of_requests = DownloadListOf(RequestsOf(cell, slots))
    /\ status = [k \in 1..Len(slots) |-> "done"]
    /\ sent = [k \in 1..Len(slots) |-> 1]
    /\ worker = [w \in 1..max_threads |-> 0]
    /\ pool_cell = cell
    /\ data = [k \in 1..Len(slots) |->
                 IF cell = "true_color"
                 THEN TrueColorResponse(seed, list_of_requests[k])
                 ELSE Response(seed, DownloadListOf(RequestsOf("sar", slots))[k])]
    /\ mask_data = IF cell = "mask"
                   THEN [k \in 1..Len(slots) |->
                           Response(seed, list_of_requests[k])]
                   ELSE <<>>
    /\ data_list = IF cell = "mask" THEN mask_data ELSE data
    /\ failure = 0
    /\ fail_order = <<>>
    /\ area_covered_ice = <<>>
    /\ earlier = <<>>
    /\ fig = NoFigure

\* the plot cell after a request-list cell: fig, axs = plt.subplots(...);
\* for idx, image in enumerate(...): ax = axs[idx // ncols][idx % ncols]
PlotGridCell ==
    /\ pc = "downloaded"
    /\ LET g == GridOf(cell)
           n == Len(IF cell = "mask" THEN mask_data ELSE data)
           drawn == DrawnOf(n, g)
       IN  /\ fig' = [NoFigure EXCEPT
                        !.kind = "grid",
                        !.axes = [k \in 1..drawn |-> SubplotOf(k - 1, g.ncols)]]
           /\ IF drawn = n
              THEN UNCHANGED <<pc, err>>
              ELSE /\ err' = "IndexError"
                   /\ pc' = CellAfterRaise("downloaded")
    /\ ns' = ns \cup {"ncols", "nrows", "fig", "axs"}
    /\ UNCHANGED <<partition_vars, pool_vars, result_vars, err_index, cell,
                   seed, list_of_requests, earlier>>

\* area_covered_ice = [] put in place of itself: the list keeps its values
Accumulated(old) == old

\* area_covered_ice = []
Fresh(old) == <<>>

\* the ice-area cell executed again
RerunAreaCell ==
    /\ pc = "area_done"
    /\ LET k == FirstRaising(mask_data)
       IN  IF k = 0
           THEN /\ area_covered_ice' =
                      AreaLoop(mask_data, 1, Fresh(area_covered_ice))
                /\ UNCHANGED <<pc, err, err_index>>
           ELSE /\ area_covered_ice' =
                      AreaLoop(SubSeq(mask_data, 1, k - 1), 1,
                               Fresh(area_covered_ice))
                /\ err' = "IndexError"
                /\ err_index' = 0
                /\ pc' = CellAfterRaise("area_done")
    /\ earlier' = <<[area_covered_ice |-> area_covered_ice]>>
    /\ UNCHANGED <<partition_vars, pool_vars, data, mask_data, ns,
                   seed, cell, list_of_requests, fig>>

\* the time-series plot cell: plt.plot(range(len(slots)), area_covered_ice);
\* plt.xticks(np.arange(0, 16, step=2), xlabels, ...)
SeriesPlotCell ==
    /\ pc = "area_done"
    /\ fig' = [NoFigure EXCEPT
                 !.kind = "series",
                 !.x = range(Len(slots)),
                 !.y = area_covered_ice,
                 !.ticks = arange(0, 16, 2),
                 !.labels = xlabels]
    /\ IF Len(slots) = Len(area_covered_ice)
       THEN UNCHANGED <<pc, err>>
       ELSE /\ err' = "ValueError"
            /\ pc' = CellAfterRaise("area_done")
    /\ ns' = ns \cup {"xlabels", "x"}
    /\ UNCHANGED <<partition_vars, pool_vars, result_vars, err_index, cell,
                   seed, list_of_requests, earlier>>

NextPlot ==
    \/ PlotGridCell
    \/ AreaCell
    \/ RerunAreaCell
    \/ SeriesPlotCell

SpecPlot == InitPlot /\ [][NextPlot]_vars

----------------------------------------------------------------------------
(* Properties of the partition cell (checked under SpecPartition).         *)

\* a < b on datetimes
DatetimeLt(a, b) ==
    \/ a.date < b.date
    \/ a.date = b.date /\ a.sec < b.sec
    \/ a.date = b.date /\ a.sec = b.sec /\ a.us < b.us

\* the ordinal of an ISO date <<year, month, day>>
IsoOrd(e) == ymd2ord(e[1], e[2], e[3])

ValidRange == DatetimeLt(start, end) /\ n_chunks >= 1

Partitioned == pc = "partitioned"

\* C1 as stated: for end > start and n_chunks >= 1 the partition returns
\* exactly n_chunks windows.
C1_NChunksWindows ==
    (Partitioned /\ ValidRange) => Len(slots) = n_chunks

\* C1 amended: for end > start and n_chunks >= 1 the partition returns
\* exactly n_chunks - 1 windows (n_chunks edges).
C1_NChunksMinusOneWindows ==
    (Partitioned /\ ValidRange) =>
        (Len(edges) = n_chunks /\ Len(slots) = n_chunks - 1)

C1_Witness ==
    Partitioned /\ ValidRange /\ n_chunks = 17 /\ Len(slots) = 16

\* C2: for valid inputs the windows cover [start, end] exactly: the first
\* window starts on the date of start, the last window ends on the date of
\* end, and every date in between lies in some window.
C2_CoversRange ==
    (Partitioned /\ ValidRange) =>
        /\ Len(slots) >= 1
        /\ slots[1][1] = isoformat(DateOf(start))
        /\ slots[Len(slots)][2] = isoformat(DateOf(end))
        /\ \A d \in DateOf(start)..DateOf(end) :
             \E i \in 1..Len(slots) :
                IsoOrd(slots[i][1]) <= d /\ d <= IsoOrd(slots[i][2])

\* C3: whenever the partition returns at least two windows, the end date of
\* window i equals the start date of window i+1, for every i.
C3_Contiguous ==
    (Partitioned /\ Len(slots) >= 2) =>
        \A i \in 1..(Len(slots) - 1) : slots[i][2] = slots[i + 1][1]

C3_Witness ==
    /\ Partitioned
    /\ Len(slots) >= 2
    /\ slots[1][2] = slots[2][1]
    /\ IsoOrd(slots[1][1]) < IsoOrd(slots[1][2])
    /\ IsoOrd(slots[2][1]) < IsoOrd(slots[2][2])

\* C10: whenever end <= start or n_chunks < 1, the partition fails with
\* InvalidRangeError and produces no windows.
C10_InvalidRangeRejected ==
    (pc # "partition" /\ ~ValidRange) =>
        (err = "InvalidRangeError" /\ "slots" \notin ns /\ slots = <<>>)

----------------------------------------------------------------------------
(* Properties of a run of the notebook (checked under Spec).               *)

\* the result list the running request-list cell binds
Target == IF cell = "mask" THEN mask_data ELSE data
TargetName == IF cell = "mask" THEN "mask_data" ELSE "data"

\* C4: the batch download returns as many results as requests were
\* submitted, and the result at position i is the result of the request at
\* position i, under every interleaving and completion order of the workers.
C4_OrderPreserved ==
    /\ (pc = "downloading") =>
          /\ Len(data_list) = Len(list_of_requests)
          /\ \A i \in 1..Len(data_list) :
                data_list[i] # None =>
                    data_list[i] = Response(seed, list_of_requests[i])
    /\ (pc = "downloaded") =>
          /\ Len(Target) = Len(list_of_requests)
          /\ \A i \in 1..Len(Target) :
                Target[i] = Response(seed, list_of_requests[i])

\* the last request of a batch has completed while the first is still
\* running, and its result sits in the last position of the container
C4_Witness ==
    /\ pc = "downloading"
    /\ Len(data_list) >= 2
    /\ status[1] = "inflight"
    /\ data_list[1] = None
    /\ data_list[Len(data_list)] = Response(seed, list_of_requests[Len(data_list)])
    /\ Response(seed, list_of_requests[1]) # Response(seed, list_of_requests[Len(data_list)])

C7_BuildPreserves ==
    /\ (pc = "built") =>
          /\ Len(list_of_requests) = Len(slots)
          /\ \A i \in 1..Len(slots) :
                /\ list_of_requests[i].time_interval = slots[i]
                /\ list_of_requests[i].download_list[1].time_interval = slots[i]
                /\ Len(list_of_requests[i].download_list) = 1
    /\ (pc \in {"listed", "downloading", "downloaded", "area_done"}) =>
          /\ Len(list_of_requests) = Len(slots)
          /\ \A i \in 1..Len(slots) :
                list_of_requests[i] =
                    DownloadRequest(
                        IF cell = "mask" THEN "evalscript_mask" ELSE "evalscript_sar",
                        slots[i],
                        IF cell = "mask" THEN "./results_mask" ELSE "./results")

C7_Witness ==
    /\ pc = "listed"
    /\ Len(slots) >= 2
    /\ slots[1] # slots[Len(slots)]
    /\ list_of_requests[Len(slots)].time_interval = slots[Len(slots)]

\* C8: the i-th value of the time series is the reduction of the i-th
\* raster result and is paired with window i; the series has exactly one
\* value per window, in window order.
C8_SeriesPairing ==
    (pc = "area_done") =>
        /\ Len(area_covered_ice) = Len(slots)
        /\ Len(area_covered_ice) = Len(mask_data)
        /\ \A i \in 1..Len(slots) :
              /\ area_covered_ice[i] =
                    TrueDiv(count_ice_pixels(mask_data[i]) * resolution_s1, 1000000)
              /\ area_covered_ice[i] =
                    TrueDiv(count_ice_pixels(
                                Response(seed, DownloadRequest("evalscript_mask",
                                                 slots[i], "./results_mask")))
                              * resolution_s1, 1000000)

C8_Witness ==
    /\ pc = "area_done"
    /\ Len(area_covered_ice) >= 2
    /\ area_covered_ice[1] # area_covered_ice[Len(area_covered_ice)]

\* the pixels of a raster whose iceMask band (band index 4) is 1
IcePixels(image) == { p \in 1..Len(image) : image[p][5] = 1 }

\* C9: for every raster result, the ice-area value computed for it equals
\* (the number of pixels whose iceMask band has the value 1) * 400 / 1000000.
C9_IceArea ==
    (pc = "area_done") =>
        \A i \in 1..Len(mask_data) :
            area_covered_ice[i] =
                <<Cardinality(IcePixels(mask_data[i])) * 400, 1000000>>

C9_Witness ==
    /\ pc = "area_done"
    /\ \E i \in 1..Len(mask_data) :
          /\ area_covered_ice[i][1] >= 400
          /\ \E p \in 1..Len(mask_data[i]) :
                mask_data[i][p][5] = 0 /\ mask_data[i][p][4] = 1
          /\ \E p \in 1..Len(mask_data[i]) :
                mask_data[i][p][5] = 1 /\ mask_data[i][p][4] = 0

----------------------------------------------------------------------------
(* Further properties of the partition cell (checked under SpecPartition). *)

AtMidnight(dt) == dt.sec = 0 /\ dt.us = 0

\* C11: for start at midnight, end > start and n_chunks >= 1 such that
\* (end - start) / n_chunks is at least one whole day, every window is
\* non-empty (its start date is strictly before its end date) and the
\* windows are strictly ascending.
C11_NonEmptyWindows ==
    (Partitioned /\ ValidRange /\ AtMidnight(start) /\ tdelta.days >= 1) =>
        /\ \A i \in 1..Len(slots) : IsoOrd(slots[i][1]) < IsoOrd(slots[i][2])
        /\ \A i \in 1..(Len(slots) - 1) :
              /\ IsoOrd(slots[i][1]) < IsoOrd(slots[i + 1][1])
              /\ IsoOrd(slots[i][2]) < IsoOrd(slots[i + 1][2])

\* a partition whose delta is a whole number of days plus a fraction of a day
C11_Witness ==
    /\ Partitioned /\ ValidRange /\ AtMidnight(start)
    /\ tdelta.days >= 1
    /\ tdelta.seconds > 0
    /\ Len(slots) >= 2
    /\ IsoOrd(slots[1][1]) < IsoOrd(slots[1][2])

\* the literals of the partition cell of the ice-monitoring notebook
IceNotebookInputs ==
    /\ start = datetime(2022, 9, 1, 0)
    /\ end = datetime(2023, 4, 30, 0)
    /\ n_chunks = 17

\* C12: the partition of start = 2022-09-01, end = 2023-04-30,
\* n_chunks = 17 yields exactly 16 windows.
C12_SixteenWindows ==
    (Partitioned /\ IceNotebookInputs) => Len(slots) = 16

C12_Witness ==
    /\ Partitioned /\ IceNotebookInputs
    /\ Len(slots) = 16
    /\ slots[1] = << <<2022, 9, 1>>, <<2022, 9, 15>> >>
    /\ slots[16] = << <<2023, 4, 1>>, <<2023, 4, 15>> >>

----------------------------------------------------------------------------
(* Properties of the worker pool (checked under SpecPool, FairSpecPool).   *)

InFlight == IndicesWith(status, "inflight")

\* C14: during a batch download, at every moment the number of requests
\* whose network call is in flight is at most max_threads = 5, however many
\* requests the batch holds.
C14_InFlightBounded == Cardinality(InFlight) <= max_threads

\* every worker is busy while a request of the batch still waits
C14_Witness ==
    /\ pc = "downloading"
    /\ Cardinality(InFlight) = max_threads
    /\ IndicesWith(status, "pending") # {}

\* no two workers run the same request, a running request has exactly one
\* worker, and only downloaded requests have a result in their slot
C15_Assignment ==
    /\ \A w1 \in DOMAIN worker : \A w2 \in DOMAIN worker :
          (w1 # w2 /\ worker[w1] # 0) => worker[w1] # worker[w2]
    /\ \A i \in DOMAIN status :
          /\ (status[i] = "inflight") <=> (\E w \in DOMAIN worker : worker[w] = i)
          /\ (status[i] # "pending") => sent[i] = 1
          /\ (status[i] = "pending") => sent[i] = 0
          /\ (data_list[i] # None) => status[i] = "done"

\* a step that changes slot i fills an empty slot, and is taken by the
\* worker that runs request i
C15_Write ==
    (pc = "downloading") =>
        \A i \in DOMAIN data_list :
            (data_list'[i] # data_list[i]) =>
                /\ data_list[i] = None
                /\ \E w \in DOMAIN worker : worker[w] = i /\ worker'[w] = 0

\* C15: every request is assigned to exactly one worker and every result
\* slot is written at most once, by the worker that handled the request of
\* the same index: no two workers ever pick the same request, and no worker
\* writes a slot belonging to another request.
C15_WriteOncePerIndex == []C15_Assignment /\ [][C15_Write]_vars

\* two workers run two requests while a third request has its result
C15_Witness ==
    /\ pc = "downloading"
    /\ \E w1 \in DOMAIN worker : \E w2 \in DOMAIN worker :
          w1 # w2 /\ worker[w1] # 0 /\ worker[w2] # 0
    /\ \E i \in DOMAIN data_list : data_list[i] # None

\* C16: the batch download never retries: each request of the batch is sent
\* to the download client at most once, also after that request or another
\* request has failed.
C16_NoRetry == \A i \in DOMAIN sent : sent[i] <= 1

\* a batch that ended with two failures, every request sent exactly once
C16_Witness ==
    /\ pc = "aborted"
    /\ Len(fail_order) >= 2
    /\ \A i \in DOMAIN sent : sent[i] = 1

\* C17: there is no cancellation: under fair scheduling, every request that
\* is in flight when another request has failed still reaches a completed
\* or failed state, and the batch download eventually returns or raises.
C17_NoCancellation ==
    /\ \A i \in 1..(MaxFair + 1) :
          (pc = "downloading" /\ failure # 0
             /\ i \in DOMAIN status /\ status[i] = "inflight")
          ~> (i \in DOMAIN status /\ status[i] \in {"done", "failed"})
    /\ (pc = "downloading") ~> (pc \in {"downloaded", "aborted"})

\* a request has failed while another is in flight and a third still waits
C17_Witness ==
    /\ pc = "downloading"
    /\ failure # 0
    /\ InFlight # {}
    /\ IndicesWith(status, "pending") # {}

----------------------------------------------------------------------------
(* Claims about the request-list cells, checked under Spec.                *)

\* C18: a request that cannot be built is surfaced when the list is built,
\* not when it is downloaded: a download of a batch is submitted only with
\* one built request per window of that batch, and once the build of a
\* batch has raised no download of that batch is started.
C18_BuildBeforeDownload ==
    /\ (pool_cell # "none" /\ pool_cell = cell) =>
          /\ list_of_requests = DownloadListOf(RequestsOf(cell, slots))
          /\ Len(status) = Len(slots)
    /\ err = "ValueError" =>
          /\ pool_cell # cell
          /\ pc = "aborted"

\* the build of the mask batch has raised after the SAR batch was downloaded
C18_Witness ==
    /\ err = "ValueError"
    /\ cell = "mask"
    /\ pool_cell = "sar"
    /\ Len(slots) >= 2

----------------------------------------------------------------------------
(* Claims about the ice-area cell, checked under SpecReduce.               *)

\* the number of pixels of a raster whose iceMask band is 1
IceMarked(image) == Cardinality({p \in 1..Len(image) : image[p][5] = 1})

\* every pixel of a raster has iceMask 0 or 1
IceBinary(image) == \A p \in 1..Len(image) : image[p][5] \in {0, 1}

\* C13: when mask_data holds 16 rasters of which raster i (i in 0..15) has
\* exactly i * 100 pixels with iceMask 1 and all other pixels 0, the ice-area
\* series has the value i * 100 * 400 / 1000000 at index i for every i in
\* 0..15, and each value is larger than the one before it.
C13_EndToEnd ==
    (/\ pc = "area_done"
     /\ Len(mask_data) = 16
     /\ \A i \in 0..15 : /\ IceBinary(mask_data[i + 1])
                          /\ IceMarked(mask_data[i + 1]) = i * 100)
    => /\ Len(area_covered_ice) = 16
       /\ \A i \in 0..15 :
             area_covered_ice[i + 1] = <<i * 100 * 400, 1000000>>
       /\ \A i \in 1..15 :
             /\ area_covered_ice[i][2] = area_covered_ice[i + 1][2]
             /\ area_covered_ice[i][1] < area_covered_ice[i + 1][1]

\* the series of 16 rasters with 0, 100, ..., 1500 ice pixels has been reduced
C13_Witness ==
    /\ pc = "area_done"
    /\ Len(mask_data) = 16
    /\ \A i \in 0..15 : IceMarked(mask_data[i + 1]) = i * 100
    /\ area_covered_ice[16] = <<600000, 1000000>>

\* C19: when count_ice_pixels raises for the raster of some window, the
\* area cell fails with ReductionError and the error identifies that window.
C19_ReductionError ==
    ("area_covered_ice" \in ns /\ FirstRaising(mask_data) # 0) =>
        /\ err = "ReductionError"
        /\ err_index = FirstRaising(mask_data)

\* C20: after a failure area_covered_ice holds one value per window or no
\* value at all, never the values of only a prefix of the windows.
C20_NoPartialSeries ==
    err # "none" => Len(area_covered_ice) \in {0, Len(slots)}

----------------------------------------------------------------------------
(* Claims about executing cells again.                                     *)

----------------------------------------------------------------------------
(* Claims about the text and the plots of the ice-monitoring notebook.     *)

\* the number of windows that start in calendar month m
StartingIn(m) == Cardinality({i \in 1..Len(slots) : slots[i][1][2] = m})

\* the length of window i in whole days
DaysOf(i) == IsoOrd(slots[i][2]) - IsoOrd(slots[i][1])

\* the months from September to April
Season == {9, 10, 11, 12, 1, 2, 3, 4}

MaskSample(i, p) == SampleOf(seed, slots[i], p)

\* C23: in evalscript_mask a pixel is classified as ice (iceMask = 1) if its
\* normalised VV decibel value is more than 50/255, for every value toDb can
\* return.  (50/255 is 5882.35 in units of 1/30000.)
C23_IceAboveThreshold ==
    ("mask_data" \in ns) =>
        \A i \in 1..Len(mask_data) : \A p \in 1..Len(mask_data[i]) :
            Gt(toDb(MaskSample(i, p).VV), 5882) => mask_data[i][p][5] = 1

\* C26: evalscript_mask puts every pixel in exactly one of its three
\* branches and always emits an iceMask of 0 or 1; so for every raster it
\* produces, the sum of band 4 taken by count_ice_pixels is the number of
\* pixels whose iceMask is 1.
C26_IceMaskBinary ==
    ("mask_data" \in ns) =>
        \A i \in 1..Len(mask_data) :
            /\ \A p \in 1..Len(mask_data[i]) :
                  LET dm == MaskSample(i, p).dataMask
                  IN  /\ Cardinality({ b \in { <<0, 0, 255, dm, 0>>,
                                               <<0, 255, 255, dm, 1>>,
                                               <<0, 0, 0, dm, 0>> } :
                                         b = mask_data[i][p] }) = 1
                      /\ mask_data[i][p][5] \in {0, 1}
            /\ count_ice_pixels(mask_data[i])
                  = Cardinality(IcePixels(mask_data[i]))

\* a downloaded mask batch with a pixel of each branch, the third branch
\* taken both by a NaN and by a value of 1 or more
C26_Witness ==
    /\ "mask_data" \in ns
    /\ \E i \in 1..Len(mask_data) : \E p \in 1..Len(mask_data[i]) :
          mask_data[i][p][3] = 255 /\ mask_data[i][p][2] = 0
    /\ \E i \in 1..Len(mask_data) : \E p \in 1..Len(mask_data[i]) :
          mask_data[i][p][5] = 1
    /\ \E i \in 1..Len(mask_data) : \E p \in 1..Len(mask_data[i]) :
          mask_data[i][p][3] = 0 /\ MaskSample(i, p).VV = NaN
    /\ \E i \in 1..Len(mask_data) : \E p \in 1..Len(mask_data[i]) :
          mask_data[i][p][3] = 0 /\ MaskSample(i, p).VV = Num(100)
    /\ \E i \in 1..Len(mask_data) : count_ice_pixels(mask_data[i]) >= 1

----------------------------------------------------------------------------
(* Numerical properties of the partition (checked under SpecPartition).    *)

\* C24: the partition does not guard against collapsed edges: for start at
\* midnight, n_chunks >= 2 and (end - start) / n_chunks shorter than one
\* day, it raises no error and the first window it returns starts and ends
\* on the same date.
C24_ZeroLengthWindow ==
    (/\ pc # "partition"
     /\ AtMidnight(start)
     /\ n_chunks >= 2
     /\ DatetimeSub(end, start).days >= 0
     /\ DatetimeSub(end, start).days < n_chunks)
    => /\ pc = "partitioned"
       /\ err = "none"
       /\ Len(slots) >= 1
       /\ slots[1][1] = slots[1][2]

\* a span of several days cut into more chunks than it has days
C24_Witness ==
    /\ Partitioned /\ AtMidnight(start)
    /\ DatetimeSub(end, start).days >= 2
    /\ DatetimeSub(end, start).days < n_chunks
    /\ tdelta.days = 0 /\ tdelta.seconds > 0
    /\ slots[1][1] = slots[1][2]
    /\ \E i \in 1..Len(slots) : slots[i][1] # slots[i][2]

\* C27: for every start at midnight, end > start and n_chunks >= 1, the
\* lengths in whole days of any two windows of the partition differ by at
\* most one day.
C27_EvenWindows ==
    (Partitioned /\ ValidRange /\ AtMidnight(start)) =>
        \A i, j \in 1..Len(slots) : DaysOf(i) - DaysOf(j) \in {-1, 0, 1}

\* a partition with windows of two different lengths, from a delta that is
\* not a whole number of days
C27_Witness ==
    /\ Partitioned /\ ValidRange /\ AtMidnight(start)
    /\ Len(slots) >= 3
    /\ tdelta.days >= 1 /\ tdelta.seconds > 0
    /\ \E i, j \in 1..Len(slots) : DaysOf(i) - DaysOf(j) = 1

----------------------------------------------------------------------------
(* Claims about the plot cells and the repeated ice-area cell (SpecPlot).  *)

\* the literals of the partition cell of Example 8 of the Process API notebook
ProcessApiInputs ==
    /\ start = datetime(2019, 1, 1, 0)
    /\ end = datetime(2019, 12, 31, 0)
    /\ n_chunks = 13

\* the batch plotted is the one of the notebook's own partition
OwnPartition ==
    \/ cell \in {"sar", "mask"} /\ IceNotebookInputs
    \/ cell = "true_color" /\ ProcessApiInputs

\* C25: in every plotting loop over a downloaded batch of the notebook's own
\* partition the subplot index stays inside the grid: the loop raises
\* nothing, every image gets a subplot with row < nrows and column < ncols
\* (4 x 4 for the 16 windows of the ice partition, 3 x 4 for the 12 windows
\* of the 2019 partition), and there are at most nrows * ncols windows.
C25_SubplotInsideGrid ==
    (fig.kind = "grid" /\ OwnPartition) =>
        /\ err = "none"
        /\ Len(fig.axes) = Len(slots)
        /\ \A k \in 1..Len(fig.axes) :
              /\ fig.axes[k][1] \in 0..(GridOf(cell).nrows - 1)
              /\ fig.axes[k][2] \in 0..(GridOf(cell).ncols - 1)
        /\ Len(slots) <= GridOf(cell).nrows * GridOf(cell).ncols

\* the 12 images of the 2019 partition plotted, the last one in the last
\* subplot of the 3 x 4 grid
C25_Witness ==
    /\ fig.kind = "grid"
    /\ cell = "true_color" /\ ProcessApiInputs
    /\ Len(data) = 12
    /\ Len(fig.axes) = 12
    /\ fig.axes[12] = <<2, 3>>

\* C28: however often the ice-area cell is executed after a successful mask
\* download, area_covered_ice holds exactly len(mask_data) values, so the
\* x values range(len(slots)) and the y values area_covered_ice given to
\* plt.plot have the same length.
C28_AreaRebuilt ==
    /\ (pc = "area_done") => Len(area_covered_ice) = Len(mask_data)
    /\ (fig.kind = "series") =>
          /\ err = "none"
          /\ Len(fig.x) = Len(slots)
          /\ Len(fig.x) = Len(fig.y)

\* the series of 16 windows plotted after the ice-area cell was executed
\* again on a list that already held its 16 values
C28_Witness ==
    /\ fig.kind = "series"
    /\ Len(earlier) = 1
    /\ Len(earlier[1].area_covered_ice) = 16
    /\ Len(mask_data) = 16
    /\ Len(fig.y) = 16
    /\ \E i \in 1..16 : fig.y[i][1] > 0

\* calendar.month_name
MonthName(m) ==
    << "January", "February", "March", "April", "May", "June", "July",
       "August", "September", "October", "November", "December" >>[m]

\* C29: in the ice time-series plot the 8 month labels are placed at slot
\* indices 0, 2, ..., 14, and for every k in 0..7 the label at slot index
\* 2k names the calendar month in which window 2k of the partition starts.
C29_MonthLabels ==
    (fig.kind = "series" /\ IceNotebookInputs) =>
        /\ fig.ticks = <<0, 2, 4, 6, 8, 10, 12, 14>>
        /\ Len(fig.labels) = Len(fig.ticks)
        /\ \A k \in 0..7 :
              fig.labels[k + 1] = MonthName(slots[2 * k + 1][1][2])

====
